---- MODULE Spec2Model ----
(***************************************************************************)
(* Goal queue, contribution allocator and reward hookup of the Xpense      *)
(* backend (backend/models/goal.py, backend/models/user.py and the goal    *)
(* routes of backend/app.py), and its Pop City grid and veto court (the    *)
(* gamification and veto-request routes of backend/app.py), and the        *)
(* Scoreboard of backend/pts.py, the level calculation of                  *)
(* backend/utils/ai_calculator.py with its advisory, and the side quests   *)
(* (backend/models/side_quest.py and the quest routes of backend/app.py).  *)
(*                                                                         *)
(* Money is counted in whole units.  A level threshold is the rational     *)
(* current + remaining * i / total_levels; the goal record stores its      *)
(* numerator over the denominator total_levels, so "amount >= threshold"   *)
(* is amount * total_levels >= numerator.                                  *)
(*                                                                         *)
(* Every route is one synchronous handler, modelled as one action.  The    *)
(* variable resp holds the response of the last handler that ran.  The     *)
(* specifications SpecPlaceConc and SpecVoteConc run two requests at a     *)
(* time: there a handler is one step per database call, its position and   *)
(* locals held in calls; so does SpecContribConc for contribute.           *)
(***************************************************************************)
EXTENDS Integers, Sequences, FiniteSets, TLC

VARIABLES goals, nextId, now, ledger, resp, grid, requests, calls, board,
          engine, quests

vars == <<goals, nextId, now, ledger, resp, grid, requests, calls, board,
          engine, quests>>

(* The goal collection and the clock; the Pop City grids, the veto-request *)
(* collection and the handlers in flight.                                  *)
goalVars  == <<goals, nextId, now>>
courtVars == <<grid, requests, calls>>
(* The call of the Level Engine on its own and the side quests.            *)
extraVars == <<engine, quests>>

(* ------------------------------ bounds --------------------------------- *)
MaxGoals  == 2
MaxTarget == 2
MaxAmount == 2
MaxTime   == 1
MaxDue    == 0
MaxPoints == 0
MaxCell     == 4
MaxRequests == 2
MaxCalls    == 2
MaxScore    == 5
MaxDay      == 3
MaxSpend    == 2
BigTarget   == 20
MaxSlack    == 1
MaxQueue    == 3
MaxTemplates == 2
MaxQuests   == 2
MaxQuestPoints == 2
MaxReward   == 1

(* --------------------------- program constants ------------------------- *)
LevelPoints     == 50
LevelCurrency   == 25
CompletionBonus == 10
OnTimeBonus     == 5
DefaultLevels   == 10
SmallRemaining  == 500
MediumRemaining == 2000
LargeRemaining  == 5000
SmallLevels     == 10
MediumLevels    == 20
LargeLevels     == 30
HugeLevels      == 50
POP_CITY_COST   == 25
POP_CITY_POINTS == 25
POP_CITY_ROWS   == 5
POP_CITY_COLS   == 5
GridCells       == 25
PlacementsPerVeto == 4
DefaultDays == 180
MinDays     == 30
MinLevels   == 5
MaxLevels   == 50
DefaultQuestPoints   == 25
DefaultQuestCurrency == 10

Users    == {"u1", "u2"}
(* The accounts: the callers of the goal routes and one more voter.        *)
Members  == Users \cup {"u3"}
(* The ids the goal collection may hold, and the ids that the requests of  *)
(* the specifications with at most MaxGoals goals address.                 *)
GoalIds  == 1..MaxQueue
ClientGoalIds == 1..MaxGoals
NoGoal   == [status |-> "absent"]
NoDate   == [kind |-> "null", t |-> 0]
StrDate(t)  == [kind |-> "str", t |-> t]
Datetime(t) == [kind |-> "datetime", t |-> t]
Statuses == {"active", "queued", "paused", "pending", "completed", "archived"}

(* ----------------------------- Level Engine ---------------------------- *)
(* The buckets with the bound of the third one included. *)
FallbackLevelsInclusive(remaining) ==
    IF remaining < SmallRemaining THEN SmallLevels
    ELSE IF remaining < MediumRemaining THEN MediumLevels
    ELSE IF remaining <= LargeRemaining THEN LargeLevels
    ELSE HugeLevels

FallbackLevels(remaining) ==
    IF remaining < SmallRemaining THEN SmallLevels
    ELSE IF remaining < MediumRemaining THEN MediumLevels
    ELSE IF remaining < LargeRemaining THEN LargeLevels
    ELSE HugeLevels

LevelThresholds(target, current, total) ==
    [i \in 1..total |-> current * total + (target - current) * i]

calculate_levels(target, current) ==
    LET remaining == target - current
        total     == FallbackLevels(remaining)
    IN  [total_levels |-> total,
         level_thresholds |-> LevelThresholds(target, current, total)]

(* ------------------------------ Goal model ----------------------------- *)
UserGoals(gs, u) == {g \in GoalIds : gs[g] # NoGoal /\ gs[g].user_id = u}

MaxOrder(gs, u) ==
    CHOOSE o \in {gs[g].order : g \in UserGoals(gs, u)} :
        \A g \in UserGoals(gs, u) : gs[g].order <= o

(* create_goal that numbers the new goal by the count of the user's goals. *)
NewGoalCountOrder(gs, u, target, date) ==
    [user_id          |-> u,
     target_amount    |-> target,
     current_amount   |-> 0,
     target_date      |-> date,
     total_levels     |-> DefaultLevels,
     current_level    |-> 0,
     level_thresholds |-> <<>>,
     status           |-> IF \E g \in UserGoals(gs, u) : gs[g].status = "active"
                          THEN "queued" ELSE "active",
     order            |-> Cardinality(UserGoals(gs, u)),
     completed_at     |-> NoDate]

NewGoal(gs, u, target, date) ==
    [user_id          |-> u,
     target_amount    |-> target,
     current_amount   |-> 0,
     target_date      |-> date,
     total_levels     |-> DefaultLevels,
     current_level    |-> 0,
     level_thresholds |-> <<>>,
     status           |-> IF \E g \in UserGoals(gs, u) : gs[g].status = "active"
                          THEN "queued" ELSE "active",
     order            |-> IF UserGoals(gs, u) = {} THEN 0 ELSE MaxOrder(gs, u) + 1,
     completed_at     |-> NoDate]

set_level_system(gs, gid, lv) ==
    IF gs[gid] = NoGoal THEN gs
    ELSE [gs EXCEPT ![gid].total_levels = lv.total_levels,
                    ![gid].level_thresholds = lv.level_thresholds]

get_goal_by_id(gs, gid) == IF gid \in GoalIds THEN gs[gid] ELSE NoGoal

(* The find_one without its sort: any waiting goal behind after_order. *)
NextGoalCandidatesUnsorted(gs, u, after_order) ==
    {g \in UserGoals(gs, u) :
        gs[g].order > after_order /\ gs[g].status \in {"queued", "paused"}}

(* Goals eligible for promotion after the goal at after_order completed:   *)
(* the find_one sorted by order returns one of those with the least order. *)
NextGoalCandidates(gs, u, after_order) ==
    LET elig == {g \in UserGoals(gs, u) :
                    gs[g].order > after_order /\ gs[g].status \in {"queued", "paused"}}
    IN  {g \in elig : \A h \in elig : gs[g].order <= gs[h].order}

NoNext == 0

activate_next_goal(gs, nxt) ==
    IF nxt = NoNext THEN gs ELSE [gs EXCEPT ![nxt].status = "active"]

Min(a, b) == IF a < b THEN a ELSE b
Max(a, b) == IF a > b THEN a ELSE b

(* The threshold loop of Goal.contribute: i + 1 for the last index of the  *)
(* leading run of thresholds that new_amount reaches; the stored level if  *)
(* the list is empty or its first threshold is not reached.                *)
RECURSIVE LeadingFrom(_, _, _)
LeadingFrom(g, new_amount, i) ==
    IF i > Len(g.level_thresholds) THEN i - 1
    ELSE IF new_amount * g.total_levels >= g.level_thresholds[i]
    THEN LeadingFrom(g, new_amount, i + 1)
    ELSE i - 1

LeadingReached(g, new_amount) == LeadingFrom(g, new_amount, 1)

NewLevel(g, new_amount) ==
    LET n == LeadingReached(g, new_amount)
    IN  IF n = 0 THEN g.current_level ELSE n

(* The amount added without the cap at the target. *)
AmountToAddUncapped(g, amount) == amount

AmountToAdd(g, amount) == Min(amount, Max(0, g.target_amount - g.current_amount))

ContributeStatus(g, new_amount) ==
    IF new_amount >= g.target_amount THEN "completed" ELSE g.status

ContributeCompletedAt(g, new_amount, t) ==
    IF new_amount >= g.target_amount THEN Datetime(t) ELSE g.completed_at

(* Goal.contribute on an existing goal; nxt is the goal that               *)
(* _activate_next_goal finds (NoNext when it finds none).                  *)
GoalContribute(gs, gid, amount, t, nxt) ==
    LET g          == gs[gid]
        add        == AmountToAdd(g, amount)
        new_amount == g.current_amount + add
        status     == ContributeStatus(g, new_amount)
        stored     == [gs EXCEPT ![gid].current_amount = new_amount,
                                 ![gid].current_level  = NewLevel(g, new_amount),
                                 ![gid].status         = status,
                                 ![gid].completed_at   = ContributeCompletedAt(g, new_amount, t)]
    IN  [goals     |-> IF status = "completed" THEN activate_next_goal(stored, nxt) ELSE stored,
         remainder |-> amount - add]

PromotionChoices(gs, gid, amount) ==
    LET g    == gs[gid]
        cand == NextGoalCandidates(gs, g.user_id, g.order)
    IN  IF ContributeStatus(g, g.current_amount + AmountToAdd(g, amount)) = "completed"
           /\ cand # {}
        THEN cand ELSE {NoNext}

(* The keyword arguments Goal.get_user_goals accepts besides user_id.      *)
GetUserGoalsKeywords == {"status"}

(* A call get_user_goals(user_id, <kw>=...) raises TypeError for a keyword *)
(* the method does not declare.                                            *)
GetUserGoalsRaises(kw) == kw \notin GetUserGoalsKeywords

(* The status list of archive_goal with "active" let through. *)
ArchivableStatusesWithActive == {"completed", "pending", "active"}

ArchivableStatuses == {"completed", "pending"}

archive_goal(gs, gid, u) ==
    LET g == get_goal_by_id(gs, gid)
    IN  IF g = NoGoal \/ g.user_id # u THEN [ok |-> FALSE, goals |-> gs]
        ELSE IF g.status \notin ArchivableStatuses THEN [ok |-> FALSE, goals |-> gs]
        ELSE [ok |-> TRUE, goals |-> [gs EXCEPT ![gid].status = "archived"]]

(* delete_one without the status filter. *)
DeleteMatchesAnyStatus(gs, gid, u) ==
    /\ get_goal_by_id(gs, gid) # NoGoal
    /\ gs[gid].user_id = u

(* The filter of the delete_one in Goal.delete_goal. *)
DeleteMatches(gs, gid, u) ==
    /\ get_goal_by_id(gs, gid) # NoGoal
    /\ gs[gid].user_id = u
    /\ gs[gid].status = "archived"

delete_goal(gs, gid, u) ==
    IF DeleteMatches(gs, gid, u)
    THEN [ok |-> TRUE, goals |-> [gs EXCEPT ![gid] = NoGoal]]
    ELSE [ok |-> FALSE, goals |-> gs]

(* A target_date that arrives in a JSON body is stored as a string; the    *)
(* query {"target_date": {"$lt": now}} compares a datetime and only        *)
(* matches fields of the same BSON type.                                   *)
IsDatetime(d) == d.kind = "datetime"

ExpiredGoals(gs, u, t) ==
    {g \in UserGoals(gs, u) :
        /\ gs[g].status \in {"active", "queued"}
        /\ IsDatetime(gs[g].target_date)
        /\ gs[g].target_date.t < t
        /\ gs[g].current_amount = 0}

check_expired_goals(gs, u, t) ==
    [g \in GoalIds |-> IF g \in ExpiredGoals(gs, u, t)
                       THEN [gs[g] EXCEPT !.status = "pending"] ELSE gs[g]]

(* ------------------------------ User model ----------------------------- *)
update_game_stats(l, u, points, currency) ==
    [l EXCEPT ![u].game_points = @ + points, ![u].game_currency = @ + currency]

(* ------------------------------ Pop City grid -------------------------- *)
(* pop_city_placements is a dict from str(index) to the item; a key is     *)
(* written here as the integer whose decimal string it is.                 *)
EmptyPlacements == <<>>

(* placements[str(index)] = item *)
PlacementsWith(p, index, item) ==
    [k \in DOMAIN p \cup {index} |-> IF k = index THEN item ELSE p[k]]

ValidIndexInclusive(index) == index >= 0 /\ index <= GridCells

ValidIndex(index) == index >= 0 /\ index < GridCells

(* The rows with a filled cell in place of the rows with every cell filled. *)
count_touched_rows(p) ==
    Cardinality({r \in 0..(POP_CITY_ROWS - 1) :
                    \E c \in 0..(POP_CITY_COLS - 1) : (r * POP_CITY_COLS + c) \in DOMAIN p})

count_full_rows(p) ==
    Cardinality({r \in 0..(POP_CITY_ROWS - 1) :
                    \A c \in 0..(POP_CITY_COLS - 1) : (r * POP_CITY_COLS + c) \in DOMAIN p})

(* ---------------------------- Veto request model ----------------------- *)
(* The class behind veto_request_model (models/veto_request.py), as the    *)
(* design of the veto court describes it: a request keeps its requester,   *)
(* the ordered list of votes and a status.                                 *)
ReqIds    == 1..MaxRequests
NoRequest == [status |-> "absent"]

veto_get_by_id(reqs, rid) == IF rid \in ReqIds THEN reqs[rid] ELSE NoRequest

NextRequestId(reqs) == Cardinality({r \in ReqIds : reqs[r] # NoRequest}) + 1

veto_create(reqs, u) ==
    [reqs EXCEPT ![NextRequestId(reqs)] = [user_id |-> u, votes |-> <<>>, status |-> "pending"]]

ApprovalsIn(r, u) ==
    IF r = NoRequest THEN 0
    ELSE Cardinality({i \in 1..Len(r.votes) : r.votes[i].userId = u /\ r.votes[i].vote = "approve"})

RECURSIVE SumApprovals(_, _, _)
SumApprovals(reqs, u, n) ==
    IF n = 0 THEN 0 ELSE ApprovalsIn(reqs[n], u) + SumApprovals(reqs, u, n - 1)

count_approvals_by_user(reqs, u) == SumApprovals(reqs, u, MaxRequests)

HasVoted(r, u) == \E i \in 1..Len(r.votes) : r.votes[i].userId = u

(* add_vote that does not look for an earlier vote of the voter. *)
add_vote_repeated(reqs, rid, u, vote) ==
    LET r == veto_get_by_id(reqs, rid)
    IN  IF r = NoRequest \/ r.status # "pending"
        THEN [ok |-> FALSE, requests |-> reqs]
        ELSE [ok |-> TRUE,
              requests |-> [reqs EXCEPT ![rid].votes = Append(@, [userId |-> u, vote |-> vote]),
                                        ![rid].status = IF vote = "veto" THEN "rejected" ELSE @]]

(* One atomic update of the request document: refused for a missing        *)
(* request, a request already decided and a voter who has voted on it;     *)
(* else the vote is appended and a veto rejects the request.               *)
add_vote(reqs, rid, u, vote) ==
    LET r == veto_get_by_id(reqs, rid)
    IN  IF r = NoRequest \/ r.status # "pending" \/ HasVoted(r, u)
        THEN [ok |-> FALSE, requests |-> reqs]
        ELSE [ok |-> TRUE,
              requests |-> [reqs EXCEPT ![rid].votes = Append(@, [userId |-> u, vote |-> vote]),
                                        ![rid].status = IF vote = "veto" THEN "rejected" ELSE @]]

(* ------------------------------- Scoreboard ---------------------------- *)
(* The Scoreboard of backend/pts.py: dicts in the memory of the process,   *)
(* written through to the game_scores collection and to the user document. *)
(* A dict is a function on the keys it holds.                              *)
DictGet(d, k, default) == IF k \in DOMAIN d THEN d[k] ELSE default

DictSet(d, k, v) == [x \in DOMAIN d \cup {k} |-> IF x = k THEN v ELSE d[x]]

(* The rows of REWARD_VALUES for the daily actions, the levels and the     *)
(* streaks: activity type, points, coins.                                  *)
RewardRows ==
    {<<"daily_target_met", 10, 5>>, <<"daily_login", 5, 2>>, <<"extra_savings", 5, 2>>,
     <<"level_up", 50, 25>>, <<"milestone_level", 150, 75>>,
     <<"streak_3", 30, 15>>, <<"streak_7", 100, 50>>, <<"streak_14", 200, 100>>,
     <<"streak_21", 300, 150>>, <<"streak_30", 500, 250>>}

REWARD_VALUES ==
    [a \in {r[1] : r \in RewardRows} |->
        LET r == CHOOSE x \in RewardRows : x[1] = a
        IN  [points |-> r[2], coins |-> r[3]]]

StreakRows ==
    {<<3, "streak_3">>, <<7, "streak_7">>, <<14, "streak_14">>,
     <<21, "streak_21">>, <<30, "streak_30">>}

streak_milestones ==
    [n \in {r[1] : r \in StreakRows} |-> (CHOOSE x \in StreakRows : x[1] = n)[2]]

(* Scoreboard.__init__, and the empty game_scores collection beside it. *)
EmptyScoreboard ==
    [user_points        |-> <<>>,
     user_coins         |-> <<>>,
     user_streaks       |-> <<>>,
     user_last_activity |-> <<>>,
     game_scores        |-> <<>>]

(* _save_to_db: $set of the figures held in memory, on game_scores and on  *)
(* the user document.                                                      *)
save_to_db(b, l, u) ==
    LET points == DictGet(b.user_points, u, 0)
        coins  == DictGet(b.user_coins, u, 0)
        streak == DictGet(b.user_streaks, u, 0)
    IN  [board  |-> [b EXCEPT !.game_scores =
                        DictSet(@, u, [points |-> points, coins |-> coins, streak |-> streak])],
         ledger |-> [l EXCEPT ![u].game_points    = points,
                              ![u].game_currency  = coins,
                              ![u].current_streak = streak]]

(* None, or an int, for an Optional[int] argument. *)
None   == [kind |-> "none", v |-> 0]
IntArg(v) == [kind |-> "int", v |-> v]

(* "Initialize user if new" of award_reward. *)
InitializeUser(b, u) ==
    IF u \in DOMAIN b.user_points THEN b
    ELSE [b EXCEPT !.user_points  = DictSet(@, u, 0),
                   !.user_coins   = DictSet(@, u, 0),
                   !.user_streaks = DictSet(@, u, 0)]

AwardRaises(activity_type, points, coins) ==
    /\ points = None \/ coins = None
    /\ activity_type \notin DOMAIN REWARD_VALUES

RewardOf(activity_type, points, coins) ==
    [points |-> IF points = None THEN REWARD_VALUES[activity_type].points ELSE points.v,
     coins  |-> IF coins = None THEN REWARD_VALUES[activity_type].coins ELSE coins.v]

award_reward(b, l, u, activity_type, points, coins) ==
    LET b0 == InitializeUser(b, u)
    IN  IF AwardRaises(activity_type, points, coins)
        THEN [board |-> b0, ledger |-> l, raised |-> TRUE, points |-> 0, coins |-> 0]
        ELSE LET r  == RewardOf(activity_type, points, coins)
                 b1 == [b0 EXCEPT !.user_points[u] = @ + r.points,
                                  !.user_coins[u]  = @ + r.coins]
                 s  == save_to_db(b1, l, u)
             IN  [board |-> s.board, ledger |-> s.ledger, raised |-> FALSE,
                  points |-> r.points, coins |-> r.coins]

spend_coins(b, l, u, amount) ==
    IF u \notin DOMAIN b.user_coins \/ b.user_coins[u] < amount
    THEN [ok |-> FALSE, board |-> b, ledger |-> l]
    ELSE LET s == save_to_db([b EXCEPT !.user_coins[u] = @ - amount], l, u)
         IN  [ok |-> TRUE, board |-> s.board, ledger |-> s.ledger]

(* update_streak on the day today; username is "" when the caller gives    *)
(* none.                                                                   *)
update_streak(b, l, u, username, today) ==
    IF u \notin DOMAIN b.user_last_activity
    THEN [board  |-> [b EXCEPT !.user_last_activity = DictSet(@, u, today),
                               !.user_streaks       = DictSet(@, u, 1)],
          ledger |-> l]
    ELSE IF b.user_last_activity[u] = today
    THEN [board |-> b, ledger |-> l]
    ELSE LET b1 == [b EXCEPT !.user_streaks[u] =
                                 IF b.user_last_activity[u] = today - 1 THEN @ + 1 ELSE 1,
                             !.user_last_activity[u] = today]
             current_streak == b1.user_streaks[u]
         IN  IF current_streak \in DOMAIN streak_milestones
             THEN LET r == award_reward(b1, l, u, streak_milestones[current_streak], None, None)
                  IN  [board |-> r.board, ledger |-> r.ledger]
             ELSE IF username # ""
             THEN save_to_db(b1, l, u)
             ELSE [board |-> b1, ledger |-> l]

(* ---------------------------- handlers in flight ----------------------- *)
(* ------------- calculate_levels_with_ai with its advisory -------------- *)
(* A value of the advisory's JSON answer.  A number is held in halves      *)
(* (half = 2 * value): 7.5 is JsonFloat(15).  json.loads reads NaN.        *)
Absent       == [type |-> "absent", half |-> 0]
JsonStr      == [type |-> "str", half |-> 0]
JsonNaN      == [type |-> "nan", half |-> 0]
JsonInt(n)   == [type |-> "int", half |-> 2 * n]
JsonFloat(h) == [type |-> "float", half |-> h]
JsonBool(b)  == [type |-> "bool", half |-> IF b THEN 2 ELSE 0]

(* isinstance(v, (int, float)): a bool is an int, NaN is a float. *)
IsNumber(v) == v.type \in {"int", "float", "bool", "nan"}

(* int(v): truncation toward zero. *)
IntOf(v) == IF v.half >= 0 THEN v.half \div 2 ELSE -((-v.half) \div 2)

(* round(num / den, 2) in hundredths, den > 0: the nearest hundredth, a    *)
(* tie to the even one (the day counts of EngineDates give no tie).        *)
RoundHundredths(num, den) ==
    LET a  == IF num >= 0 THEN num ELSE -num
        q  == (a * 100) \div den
        r  == (a * 100) % den
        m  == IF 2 * r > den \/ (2 * r = den /\ q % 2 = 1) THEN q + 1 ELSE q
    IN  IF num >= 0 THEN m ELSE -m

(* The target date of goal_data: none; a datetime or an ISO string without *)
(* offset, days = (target_date - utcnow()).days; an ISO string with Z or   *)
(* an offset (aware minus naive raises TypeError); a string fromisoformat  *)
(* rejects (ValueError).  Both raise before the try block.                 *)
NoTargetDate  == [kind |-> "null", days |-> 0]
NaiveDate(d)  == [kind |-> "naive", days |-> d]
AwareDate     == [kind |-> "aware", days |-> 0]
MalformedDate == [kind |-> "malformed", days |-> 0]

DateRaises(target_date) == target_date.kind \in {"aware", "malformed"}

days_to_goal(target_date) ==
    IF target_date.kind = "null" THEN DefaultDays ELSE Max(target_date.days, MinDays)

(* What the try block gets from the advisory: an exception (the call, the  *)
(* parse of its text, or an answer that is no object), or an object with   *)
(* the two suggestions.                                                    *)
AdvisoryRaises     == [kind |-> "raises", levels |-> Absent, daily |-> Absent]
AdvisoryDict(l, d) == [kind |-> "dict", levels |-> l, daily |-> d]

(* The try block reaches its return: int(NaN) raises inside it. *)
AdvisoryReturns(advisory) ==
    advisory.kind = "dict" /\ advisory.levels.type # "nan"

LevelsAccepted(sug_levels) ==
    IsNumber(sug_levels) /\ MinLevels <= IntOf(sug_levels) /\ IntOf(sug_levels) <= MaxLevels

DailyAccepted(sug_daily) ==
    IsNumber(sug_daily) /\ sug_daily.type # "nan" /\ sug_daily.half >= 0

EngineRaised == [kind |-> "raised"]

(* daily_target is held in hundredths. *)
calculate_levels_with_ai(goal_data, advisory) ==
    LET remaining    == goal_data.target_amount - goal_data.current_amount
        current      == goal_data.current_amount
        total_levels == IF AdvisoryReturns(advisory) /\ LevelsAccepted(advisory.levels)
                        THEN IntOf(advisory.levels)
                        ELSE FallbackLevels(remaining)
        daily_target == IF AdvisoryReturns(advisory) /\ DailyAccepted(advisory.daily)
                        THEN advisory.daily.half * 50
                        ELSE RoundHundredths(remaining, days_to_goal(goal_data.target_date))
    IN  IF DateRaises(goal_data.target_date) THEN EngineRaised
        ELSE [kind             |-> "returned",
              total_levels     |-> total_levels,
              level_thresholds |-> LevelThresholds(goal_data.target_amount, current, total_levels),
              daily_target     |-> daily_target]

NoInput  == [kind |-> "none"]
NoResult == [kind |-> "pending"]

(* ---------------------------- Side quest model ------------------------- *)
TemplateIds == 1..MaxTemplates
QuestIds    == 1..MaxQuests
NoTemplate  == [is_active |-> FALSE]
NoUserQuest == [status |-> "absent"]

EmptyQuests ==
    [templates   |-> [t \in TemplateIds |-> NoTemplate],
     user_quests |-> [q \in QuestIds |-> NoUserQuest]]

FreeTemplates(qs) == {t \in TemplateIds : qs.templates[t] = NoTemplate}
FreeQuests(qs)    == {q \in QuestIds : qs.user_quests[q] = NoUserQuest}
NextTemplateId(qs) == CHOOSE t \in FreeTemplates(qs) : \A s \in FreeTemplates(qs) : t <= s
NextQuestId(qs)    == CHOOSE q \in FreeQuests(qs) : \A s \in FreeQuests(qs) : q <= s

create_quest_template(qs, points_reward, currency_reward) ==
    [qs EXCEPT !.templates[NextTemplateId(qs)] =
        [is_active |-> TRUE, points_reward |-> points_reward,
         currency_reward |-> currency_reward]]

find_template(qs, quest_id) ==
    IF quest_id \in TemplateIds THEN qs.templates[quest_id] ELSE NoTemplate

find_user_quest(qs, user_quest_id) ==
    IF user_quest_id \in QuestIds THEN qs.user_quests[user_quest_id] ELSE NoUserQuest

(* None (ok = FALSE) when the template does not exist. *)
assign_quest_to_user(qs, u, quest_id) ==
    IF find_template(qs, quest_id) = NoTemplate
    THEN [quests |-> qs, ok |-> FALSE, id |-> 0]
    ELSE [quests |-> [qs EXCEPT !.user_quests[NextQuestId(qs)] =
                        [user_id |-> u, quest_id |-> quest_id,
                         status |-> "accepted", completed_at |-> NoDate]],
          ok |-> TRUE, id |-> NextQuestId(qs)]

(* update_one keyed by the id alone: whatever the status was. *)
complete_quest(qs, user_quest_id, t) ==
    IF find_user_quest(qs, user_quest_id) = NoUserQuest THEN qs
    ELSE [qs EXCEPT !.user_quests[user_quest_id].status = "completed",
                    !.user_quests[user_quest_id].completed_at = Datetime(t)]

CallIds == 1..MaxCalls
Idle    == [op |-> "idle"]

(* ------------------------------- handlers ------------------------------ *)
Response(op, code) ==
    [op |-> op, code |-> code]

Init ==
    /\ goals  = [g \in GoalIds |-> NoGoal]
    /\ nextId = 1
    /\ now    = 0
    /\ ledger = [u \in Members |-> [game_points |-> 0, game_currency |-> 0,
                                    current_streak |-> 0, longest_streak |-> 0]]
    /\ resp   = Response("init", 200)
    /\ grid     = [u \in Members |-> EmptyPlacements]
    /\ requests = [r \in ReqIds |-> NoRequest]
    /\ calls    = [c \in CallIds |-> Idle]
    /\ board    = EmptyScoreboard
    /\ engine   = [input |-> NoInput, out |-> NoResult]
    /\ quests   = EmptyQuests

(* POST /api/goals, while the collection holds fewer than cap goals. *)
CreateGoalWithin(cap, u, target, date) ==
    /\ nextId <= cap
    /\ IF target = 0
       THEN /\ resp' = Response("create", 400)
            /\ UNCHANGED <<goals, nextId, ledger>>
       ELSE /\ goals' = set_level_system([goals EXCEPT ![nextId] = NewGoal(goals, u, target, date)],
                                         nextId, calculate_levels(target, 0))
            /\ nextId' = nextId + 1
            /\ resp' = Response("create", 201)
            /\ UNCHANGED ledger
    /\ UNCHANGED now
    /\ UNCHANGED <<courtVars, board, extraVars>>

CreateGoal(u, target, date) == CreateGoalWithin(MaxGoals, u, target, date)

LevelReward(old_level, new_level) ==
    IF new_level > old_level
    THEN [points |-> (new_level - old_level) * LevelPoints,
          currency |-> (new_level - old_level) * LevelCurrency]
    ELSE [points |-> 0, currency |-> 0]

JustCompleted(old, updated) ==
    /\ updated.status \in {"completed", "archived"}
    /\ old.status \notin {"completed", "archived"}

OnTime(updated) ==
    /\ updated.target_date # NoDate
    /\ updated.completed_at # NoDate
    /\ updated.completed_at.t <= updated.target_date.t

CompletionReward(old, updated) ==
    IF JustCompleted(old, updated)
    THEN CompletionBonus + (IF OnTime(updated) THEN OnTimeBonus ELSE 0)
    ELSE 0

(* The route without the check of the goal's owner. *)
ContributeAnyCaller(u, gid, amount) ==
    /\ UNCHANGED <<nextId, now>>
    /\ UNCHANGED <<courtVars, board, extraVars>>
    /\ IF amount <= 0
       THEN /\ resp' = Response("contribute", 400)
            /\ UNCHANGED <<goals, ledger>>
       ELSE IF get_goal_by_id(goals, gid) = NoGoal
       THEN /\ resp' = Response("contribute", 404)
            /\ UNCHANGED <<goals, ledger>>
       ELSE \E nxt \in PromotionChoices(goals, gid, amount) :
            LET r       == GoalContribute(goals, gid, amount, now, nxt)
                old     == goals[gid]
                updated == r.goals[gid]
                lvl     == LevelReward(old.current_level, updated.current_level)
                points  == lvl.points + CompletionReward(old, updated)
            IN  /\ goals' = r.goals
                /\ IF r.remainder > 0 /\ GetUserGoalsRaises("exclude_archived")
                   THEN /\ resp' = Response("contribute", 500)
                        /\ UNCHANGED ledger
                   ELSE /\ points > 0 => ledger[u].game_points <= MaxPoints
                        /\ ledger' = IF points > 0 \/ lvl.currency > 0
                                     THEN update_game_stats(ledger, u, points, lvl.currency)
                                     ELSE ledger
                        /\ resp' = Response("contribute", 200)

(* POST /api/goals/<goal_id>/contribute *)
Contribute(u, gid, amount) ==
    /\ UNCHANGED <<nextId, now>>
    /\ UNCHANGED <<courtVars, board, extraVars>>
    /\ IF amount <= 0
       THEN /\ resp' = Response("contribute", 400)
            /\ UNCHANGED <<goals, ledger>>
       ELSE IF get_goal_by_id(goals, gid) = NoGoal
       THEN /\ resp' = Response("contribute", 404)
            /\ UNCHANGED <<goals, ledger>>
       ELSE IF goals[gid].user_id # u
       THEN /\ resp' = Response("contribute", 403)
            /\ UNCHANGED <<goals, ledger>>
       ELSE \E nxt \in PromotionChoices(goals, gid, amount) :
            LET r       == GoalContribute(goals, gid, amount, now, nxt)
                old     == goals[gid]
                updated == r.goals[gid]
                lvl     == LevelReward(old.current_level, updated.current_level)
                points  == lvl.points + CompletionReward(old, updated)
            IN  /\ goals' = r.goals
                /\ IF r.remainder > 0 /\ GetUserGoalsRaises("exclude_archived")
                   THEN /\ resp' = Response("contribute", 500)
                        /\ UNCHANGED ledger
                   ELSE /\ points > 0 => ledger[u].game_points <= MaxPoints
                        /\ ledger' = IF points > 0 \/ lvl.currency > 0
                                     THEN update_game_stats(ledger, u, points, lvl.currency)
                                     ELSE ledger
                        /\ resp' = Response("contribute", 200)

(* PATCH /api/goals/<goal_id>; body is the allowed part of the JSON body,  *)
(* a function from its keys to their values.                               *)
HasKey(body, k) == k \in DOMAIN body

ApplyUpdate(g, body) ==
    [g EXCEPT !.target_amount = IF HasKey(body, "target_amount") THEN body["target_amount"] ELSE @,
              !.target_date   = IF HasKey(body, "target_date") THEN body["target_date"] ELSE @,
              !.status        = IF HasKey(body, "status") THEN body["status"] ELSE @]

NeedsRecalc(g, body) ==
    \/ HasKey(body, "target_amount") /\ body["target_amount"] # g.target_amount
    \/ HasKey(body, "target_date") /\ body["target_date"] # g.target_date

UpdateGoal(u, gid, body) ==
    /\ UNCHANGED <<nextId, now, ledger>>
    /\ UNCHANGED <<courtVars, board, extraVars>>
    /\ IF get_goal_by_id(goals, gid) = NoGoal
       THEN /\ resp' = Response("update", 404)
            /\ UNCHANGED goals
       ELSE IF goals[gid].user_id # u
       THEN /\ resp' = Response("update", 403)
            /\ UNCHANGED goals
       ELSE IF DOMAIN body = {}
       THEN /\ resp' = Response("update", 200)
            /\ UNCHANGED goals
       ELSE LET updated == ApplyUpdate(goals[gid], body)
                stored  == [goals EXCEPT ![gid] = updated]
            IN  /\ goals' = IF NeedsRecalc(goals[gid], body)
                            THEN set_level_system(stored, gid,
                                     calculate_levels(updated.target_amount, updated.current_amount))
                            ELSE stored
                /\ resp' = Response("update", 200)

(* The loop that stops at the first id it does not apply. *)
RECURSIVE ReorderLoopAborting(_, _, _, _)
ReorderLoopAborting(gs, u, ids, i) ==
    IF i > Len(ids) THEN gs
    ELSE LET g == get_goal_by_id(gs, ids[i])
         IN  IF g # NoGoal /\ g.user_id = u
             THEN ReorderLoopAborting([gs EXCEPT ![ids[i]].order = i - 1], u, ids, i + 1)
             ELSE gs

(* POST /api/goals/reorder: the loop over goalIds, then the listing call.  *)
RECURSIVE ReorderLoop(_, _, _, _)
ReorderLoop(gs, u, ids, i) ==
    IF i > Len(ids) THEN gs
    ELSE LET g == get_goal_by_id(gs, ids[i])
         IN  ReorderLoop(IF g # NoGoal /\ g.user_id = u
                         THEN [gs EXCEPT ![ids[i]].order = i - 1] ELSE gs,
                         u, ids, i + 1)

ReorderGoals(u, ids) ==
    /\ goals' = ReorderLoop(goals, u, ids, 1)
    /\ resp' = Response("reorder", IF GetUserGoalsRaises("exclude_archived") THEN 500 ELSE 200)
    /\ UNCHANGED <<nextId, now, ledger>>
    /\ UNCHANGED <<courtVars, board, extraVars>>

(* POST /api/goals/check-expired *)
CheckExpired(u) ==
    /\ goals' = check_expired_goals(goals, u, now)
    /\ resp' = Response("checkExpired", 200)
    /\ UNCHANGED <<nextId, now, ledger>>
    /\ UNCHANGED <<courtVars, board, extraVars>>

(* POST /api/goals/<goal_id>/archive *)
ArchiveGoal(u, gid) ==
    /\ goals' = archive_goal(goals, gid, u).goals
    /\ resp' = Response("archive", IF archive_goal(goals, gid, u).ok THEN 200 ELSE 400)
    /\ UNCHANGED <<nextId, now, ledger>>
    /\ UNCHANGED <<courtVars, board, extraVars>>

(* DELETE /api/goals/<goal_id> *)
DeleteGoal(u, gid) ==
    /\ goals' = delete_goal(goals, gid, u).goals
    /\ resp' = Response("delete", IF delete_goal(goals, gid, u).ok THEN 200 ELSE 400)
    /\ UNCHANGED <<nextId, now, ledger>>
    /\ UNCHANGED <<courtVars, board, extraVars>>

(* datetime.utcnow() advances between requests. *)
Tick ==
    /\ now < MaxTime
    /\ now' = now + 1
    /\ resp' = Response("tick", 200)
    /\ UNCHANGED <<goals, nextId, ledger>>
    /\ UNCHANGED <<courtVars, board, extraVars>>

(* The token figures that the stats and place routes derive from the grid  *)
(* and the votes.                                                          *)
Stats(gr, reqs, u) ==
    LET placement_count == Cardinality(DOMAIN gr[u])
        approve_earned  == count_full_rows(gr[u])
        approve_used    == count_approvals_by_user(reqs, u)
    IN  [pop_city_placement_count |-> placement_count,
         veto_tokens    |-> placement_count \div PlacementsPerVeto,
         approve_earned |-> approve_earned,
         approve_used   |-> approve_used,
         approve_tokens |-> Max(0, approve_earned - approve_used)]

(* A response with the figures of user u; an error response. *)
StatsResponse(op, code, u, stats) ==
    [op |-> op, code |-> code, user |-> u, stats |-> stats]

ErrorResponse(op, code, error) ==
    [op |-> op, code |-> code, error |-> error]

(* GET /api/gamification/stats *)
GetGameStats(u) ==
    /\ resp' = StatsResponse("stats", 200, u, Stats(grid, requests, u))
    /\ UNCHANGED <<goalVars, ledger, courtVars, board, extraVars>>

(* The checks of pop_city_place in the order of the code. *)
PlaceError(currency, index, item) ==
    IF currency < POP_CITY_COST THEN "Not enough coins"
    ELSE IF ~ValidIndex(index) THEN "Invalid index"
    ELSE IF item = "" THEN "Invalid item"
    ELSE "none"

(* POST /api/gamification/pop-city-place, one request at a time. *)
Place(u, index, item) ==
    /\ UNCHANGED <<goalVars, board, requests, calls, extraVars>>
    /\ IF PlaceError(ledger[u].game_currency, index, item) # "none"
       THEN /\ resp' = ErrorResponse("place", 400, PlaceError(ledger[u].game_currency, index, item))
            /\ UNCHANGED <<ledger, grid>>
       ELSE /\ grid' = [grid EXCEPT ![u] = PlacementsWith(@, index, item)]
            /\ ledger' = update_game_stats(ledger, u, POP_CITY_POINTS, -POP_CITY_COST)
            /\ resp' = StatsResponse("place", 200, u, Stats(grid', requests, u))

(* pop_city_place as its database calls: find_by_id and the checks, *)
(* update_user, update_game_stats, then the reads for the response. *)
PlaceBegin(c, u, index, item) ==
    /\ calls[c] = Idle
    /\ UNCHANGED <<goalVars, board, ledger, grid, requests, extraVars>>
    /\ IF PlaceError(ledger[u].game_currency, index, item) # "none"
       THEN /\ resp' = ErrorResponse("place", 400, PlaceError(ledger[u].game_currency, index, item))
            /\ UNCHANGED calls
       ELSE /\ calls' = [calls EXCEPT ![c] = [op |-> "place", pc |-> "update_user", user |-> u,
                                              placements |-> PlacementsWith(grid[u], index, item)]]
            /\ UNCHANGED resp

PlaceUpdateUser(c) ==
    /\ calls[c].op = "place" /\ calls[c].pc = "update_user"
    /\ grid' = [grid EXCEPT ![calls[c].user] = calls[c].placements]
    /\ calls' = [calls EXCEPT ![c].pc = "update_game_stats"]
    /\ UNCHANGED <<goalVars, board, ledger, requests, resp, extraVars>>

PlaceUpdateGameStats(c) ==
    /\ calls[c].op = "place" /\ calls[c].pc = "update_game_stats"
    /\ ledger' = update_game_stats(ledger, calls[c].user, POP_CITY_POINTS, -POP_CITY_COST)
    /\ calls' = [calls EXCEPT ![c].pc = "reply"]
    /\ UNCHANGED <<goalVars, board, grid, requests, resp, extraVars>>

PlaceReply(c) ==
    /\ calls[c].op = "place" /\ calls[c].pc = "reply"
    /\ resp' = StatsResponse("place", 200, calls[c].user, Stats(grid, requests, calls[c].user))
    /\ calls' = [calls EXCEPT ![c] = Idle]
    /\ UNCHANGED <<goalVars, board, ledger, grid, requests, extraVars>>

(* A missing amount: float(None) raises TypeError. *)
NoAmount     == [kind |-> "null", v |-> 0]
NumAmount(v) == [kind |-> "num", v |-> v]

(* POST /api/veto-requests *)
CreateVetoRequest(u, item, amount) ==
    /\ NextRequestId(requests) <= MaxRequests
    /\ UNCHANGED <<goalVars, board, ledger, grid, calls, extraVars>>
    /\ IF item = "" \/ amount = NoAmount
       THEN /\ resp' = Response("createVeto", 400)
            /\ UNCHANGED requests
       ELSE /\ requests' = veto_create(requests, u)
            /\ resp' = Response("createVeto", 201)

(* The own-request check left out. *)
IsOwnRequestNever(r, u) == FALSE

IsOwnRequest(r, u) == r.user_id = u

(* The token check applied to every vote. *)
NeedsApproveTokenAnyVote(vote) == TRUE

NeedsApproveToken(vote) == vote = "approve"

NotFoundResponse == ErrorResponse("vote", 404, "Veto request not found")

(* The checks of vote_veto_request before add_vote, in the order of the    *)
(* code: the refusal, or the response of a recorded vote.                  *)
VoteChecks(reqs, gr, u, rid, vote) ==
    IF vote \notin {"approve", "veto"}
    THEN ErrorResponse("vote", 400, "Vote must be 'approve' or 'veto'")
    ELSE IF veto_get_by_id(reqs, rid) = NoRequest
    THEN NotFoundResponse
    ELSE IF IsOwnRequest(reqs[rid], u)
    THEN ErrorResponse("vote", 400, "You cannot vote on your own request")
    ELSE IF NeedsApproveToken(vote)
            /\ count_full_rows(gr[u]) - count_approvals_by_user(reqs, u) < 1
    THEN ErrorResponse("vote", 400, "Fill one full row in Pop City")
    ELSE Response("vote", 200)

(* POST /api/veto-requests/<request_id>/vote, one request at a time. *)
VoteVetoRequest(u, rid, vote) ==
    /\ UNCHANGED <<goalVars, board, ledger, grid, calls, extraVars>>
    /\ IF VoteChecks(requests, grid, u, rid, vote).code # 200
       THEN /\ resp' = VoteChecks(requests, grid, u, rid, vote)
            /\ UNCHANGED requests
       ELSE /\ requests' = add_vote(requests, rid, u, vote).requests
            /\ resp' = IF add_vote(requests, rid, u, vote).ok
                       THEN Response("vote", 200) ELSE NotFoundResponse

(* vote_veto_request as its database calls: the reads and checks, then     *)
(* add_vote.                                                               *)
VoteBegin(c, u, rid, vote) ==
    /\ calls[c] = Idle
    /\ UNCHANGED <<goalVars, board, ledger, grid, requests, extraVars>>
    /\ IF VoteChecks(requests, grid, u, rid, vote).code # 200
       THEN /\ resp' = VoteChecks(requests, grid, u, rid, vote)
            /\ UNCHANGED calls
       ELSE /\ calls' = [calls EXCEPT ![c] = [op |-> "vote", pc |-> "add_vote", user |-> u,
                                              request_id |-> rid, vote |-> vote]]
            /\ UNCHANGED resp

VoteAddVote(c) ==
    /\ calls[c].op = "vote" /\ calls[c].pc = "add_vote"
    /\ LET r == add_vote(requests, calls[c].request_id, calls[c].user, calls[c].vote)
       IN  /\ requests' = r.requests
           /\ resp' = IF r.ok THEN Response("vote", 200) ELSE NotFoundResponse
    /\ calls' = [calls EXCEPT ![c] = Idle]
    /\ UNCHANGED <<goalVars, board, ledger, grid, extraVars>>

(* ------------------------- the Scoreboard's methods -------------------- *)
(* The value a method returned: the (points, coins) of award_reward.       *)
RewardResult(op, points, coins) ==
    [op |-> op, code |-> 200, points |-> points, coins |-> coins]

(* Scoreboard.award_reward; code 500 stands for the ValueError. *)
AwardReward(u, activity_type, points, coins) ==
    /\ DictGet(board.user_points, u, 0) <= MaxScore
    /\ LET r == award_reward(board, ledger, u, activity_type, points, coins)
       IN  /\ board' = r.board
           /\ ledger' = r.ledger
           /\ resp' = IF r.raised THEN Response("award_reward", 500)
                      ELSE RewardResult("award_reward", r.points, r.coins)
    /\ UNCHANGED <<goalVars, courtVars, extraVars>>

(* Scoreboard.spend_coins; code 400 stands for the return value False. *)
SpendCoins(u, amount) ==
    /\ LET r == spend_coins(board, ledger, u, amount)
       IN  /\ board' = r.board
           /\ ledger' = r.ledger
           /\ resp' = Response("spend_coins", IF r.ok THEN 200 ELSE 400)
    /\ UNCHANGED <<goalVars, courtVars, extraVars>>

(* Scoreboard.update_streak; now counts the days. *)
UpdateStreak(u, username) ==
    /\ DictGet(board.user_points, u, 0) <= MaxScore
    /\ LET r == update_streak(board, ledger, u, username, now)
       IN  /\ board' = r.board
           /\ ledger' = r.ledger
    /\ resp' = Response("update_streak", 200)
    /\ UNCHANGED <<goalVars, courtVars, extraVars>>

(* datetime.now().date() moves on to the next day. *)
Midnight ==
    /\ now < MaxDay
    /\ now' = now + 1
    /\ resp' = Response("midnight", 200)
    /\ UNCHANGED <<goals, nextId, ledger, board, courtVars, extraVars>>

(* ---------------------- contribute, sent and sent again ---------------- *)
(* The client keeps the request it sent in calls until it holds the        *)
(* response; while it waits it may send the same request again.            *)
NoResponse == Response("none", 0)

SendContribute(c, u, gid, amount) ==
    /\ \A d \in CallIds : calls[d] = Idle
    /\ calls' = [calls EXCEPT ![c] = [op |-> "contribute", pc |-> "sent", user |-> u,
                                      goal_id |-> gid, amount |-> amount]]
    /\ resp' = NoResponse
    /\ UNCHANGED <<goalVars, ledger, board, grid, requests, extraVars>>

(* The route handles the request in calls[c]: the first time, or again. *)
DeliverContribute(c) ==
    /\ calls[c].op = "contribute" /\ calls[c].pc = "sent"
    /\ Contribute(calls[c].user, calls[c].goal_id, calls[c].amount)

ReceiveResponse(c) ==
    /\ calls[c].op = "contribute" /\ calls[c].pc = "sent"
    /\ resp.op = "contribute"
    /\ calls' = [calls EXCEPT ![c] = Idle]
    /\ UNCHANGED <<goalVars, ledger, board, resp, grid, requests, extraVars>>

(* --------------------- contribute as its database calls ---------------- *)
(* contribute_to_goal: the checks on the route's read of the goal, then    *)
(* Goal.contribute (its own read, its update_one, _activate_next_goal),    *)
(* then the read of the updated goal and the reward.                       *)
ContributeBegin(c, u, gid, amount) ==
    /\ calls[c] = Idle
    /\ UNCHANGED <<goalVars, ledger, board, grid, requests, extraVars>>
    /\ IF amount <= 0
       THEN resp' = Response("contribute", 400) /\ UNCHANGED calls
       ELSE IF get_goal_by_id(goals, gid) = NoGoal
       THEN resp' = Response("contribute", 404) /\ UNCHANGED calls
       ELSE IF goals[gid].user_id # u
       THEN resp' = Response("contribute", 403) /\ UNCHANGED calls
       ELSE /\ calls' = [calls EXCEPT ![c] = [op |-> "contribute", pc |-> "find", user |-> u,
                                              goal_id |-> gid, amount |-> amount,
                                              old |-> goals[gid]]]
            /\ UNCHANGED resp

(* goal = self.get_goal_by_id(goal_id) in Goal.contribute *)
ContributeFind(c) ==
    /\ calls[c].op = "contribute" /\ calls[c].pc = "find"
    /\ UNCHANGED <<goalVars, ledger, board, grid, requests, extraVars>>
    /\ IF get_goal_by_id(goals, calls[c].goal_id) = NoGoal
       THEN /\ resp' = Response("contribute", 404)
            /\ calls' = [calls EXCEPT ![c] = Idle]
       ELSE /\ calls' = [calls EXCEPT ![c] =
                            [op |-> "contribute", pc |-> "update", user |-> calls[c].user,
                             goal_id |-> calls[c].goal_id, amount |-> calls[c].amount,
                             old |-> calls[c].old, goal |-> goals[calls[c].goal_id]]]
            /\ UNCHANGED resp

(* The update_one of Goal.contribute: $set of the values computed from the *)
(* document that ContributeFind read.                                      *)
ContributeUpdate(c) ==
    /\ calls[c].op = "contribute" /\ calls[c].pc = "update"
    /\ LET gid        == calls[c].goal_id
           goal       == calls[c].goal
           new_amount == goal.current_amount + AmountToAdd(goal, calls[c].amount)
       IN  /\ goals' = IF goals[gid] = NoGoal THEN goals
                       ELSE [goals EXCEPT
                                ![gid].current_amount = new_amount,
                                ![gid].current_level  = NewLevel(goal, new_amount),
                                ![gid].status         = ContributeStatus(goal, new_amount),
                                ![gid].completed_at   = ContributeCompletedAt(goal, new_amount, now)]
           /\ calls' = [calls EXCEPT ![c].pc =
                           IF ContributeStatus(goal, new_amount) = "completed"
                           THEN "activate" ELSE "reward"]
    /\ UNCHANGED <<nextId, now, ledger, board, resp, grid, requests, extraVars>>

(* _activate_next_goal after a completing update. *)
ContributeActivate(c) ==
    /\ calls[c].op = "contribute" /\ calls[c].pc = "activate"
    /\ LET cand == NextGoalCandidates(goals, calls[c].goal.user_id, calls[c].goal.order)
       IN  \E nxt \in (IF cand = {} THEN {NoNext} ELSE cand) :
              goals' = activate_next_goal(goals, nxt)
    /\ calls' = [calls EXCEPT ![c].pc = "reward"]
    /\ UNCHANGED <<nextId, now, ledger, board, resp, grid, requests, extraVars>>

(* The spillover loop (its listing call raises), else the read of the      *)
(* updated goal, update_game_stats and the response.                       *)
ContributeReward(c) ==
    /\ calls[c].op = "contribute" /\ calls[c].pc = "reward"
    /\ LET u         == calls[c].user
           old       == calls[c].old
           remainder == calls[c].amount - AmountToAdd(calls[c].goal, calls[c].amount)
           updated   == get_goal_by_id(goals, calls[c].goal_id)
           new_level == IF updated = NoGoal THEN old.current_level ELSE updated.current_level
           lvl       == LevelReward(old.current_level, new_level)
           points    == lvl.points + (IF updated = NoGoal THEN 0 ELSE CompletionReward(old, updated))
       IN  IF remainder > 0 /\ GetUserGoalsRaises("exclude_archived")
           THEN /\ resp' = Response("contribute", 500)
                /\ UNCHANGED ledger
           ELSE /\ points > 0 => ledger[u].game_points <= MaxPoints
                /\ ledger' = IF points > 0 \/ lvl.currency > 0
                             THEN update_game_stats(ledger, u, points, lvl.currency)
                             ELSE ledger
                /\ resp' = Response("contribute", 200)
    /\ calls' = [calls EXCEPT ![c] = Idle]
    /\ UNCHANGED <<goalVars, board, grid, requests, extraVars>>

(* ------------------------- the Level Engine alone ---------------------- *)
(* One call of calculate_levels_with_ai on the input drawn at the start.   *)
ComputeLevels ==
    /\ engine.input # NoInput
    /\ engine.out = NoResult
    /\ engine' = [engine EXCEPT !.out = calculate_levels_with_ai(engine.input.goal_data,
                                                                  engine.input.advisory)]
    /\ resp' = Response("computeLevels", 200)
    /\ UNCHANGED <<goalVars, ledger, courtVars, board, quests>>

(* --------------------------- side quest routes ------------------------- *)
QuestResponse(op, code, user_quest_id) ==
    [op |-> op, code |-> code, user_quest_id |-> user_quest_id]

(* int(data.get(key) or default) *)
RewardOr(v, default) == IF v = 0 THEN default ELSE v

(* POST /api/quests/from-suggestion *)
CreateQuestFromSuggestion(u, has_name, points_reward, currency_reward) ==
    /\ FreeTemplates(quests) # {} /\ FreeQuests(quests) # {}
    /\ IF ~has_name
       THEN /\ resp' = QuestResponse("fromSuggestion", 400, 0)
            /\ UNCHANGED quests
       ELSE LET made == create_quest_template(quests,
                            RewardOr(points_reward, DefaultQuestPoints),
                            RewardOr(currency_reward, DefaultQuestCurrency))
                r    == assign_quest_to_user(made, u, NextTemplateId(quests))
            IN  /\ quests' = r.quests
                /\ resp' = QuestResponse("fromSuggestion", IF r.ok THEN 201 ELSE 500, r.id)
    /\ UNCHANGED <<goalVars, ledger, courtVars, board, engine>>

(* POST /api/quests/<quest_id>/accept *)
AcceptQuest(u, quest_id) ==
    /\ FreeQuests(quests) # {}
    /\ LET r == assign_quest_to_user(quests, u, quest_id)
       IN  /\ quests' = r.quests
           /\ resp' = QuestResponse("acceptQuest", IF r.ok THEN 200 ELSE 404, r.id)
    /\ UNCHANGED <<goalVars, ledger, courtVars, board, engine>>

(* POST /api/quests/<user_quest_id>/complete *)
CompleteQuest(u, user_quest_id) ==
    /\ UNCHANGED <<goalVars, courtVars, board, engine>>
    /\ LET user_quest == find_user_quest(quests, user_quest_id)
       IN  IF user_quest = NoUserQuest
           THEN /\ resp' = QuestResponse("completeQuest", 404, user_quest_id)
                /\ UNCHANGED <<quests, ledger>>
           ELSE IF user_quest.user_id # u
           THEN /\ resp' = QuestResponse("completeQuest", 403, user_quest_id)
                /\ UNCHANGED <<quests, ledger>>
           ELSE LET quest_template == find_template(quests, user_quest.quest_id)
                IN  /\ ledger[u].game_points <= MaxQuestPoints
                    /\ quests' = complete_quest(quests, user_quest_id, now)
                    /\ ledger' = update_game_stats(ledger, u, quest_template.points_reward,
                                                   quest_template.currency_reward)
                    /\ resp' = QuestResponse("completeQuest", 200, user_quest_id)

(* The index of the body of pop_city_place, a JSON value: the integer that *)
(* the route checks and stores as str(int(index)).  A value the checks     *)
(* refuse (none, no number, below 0, from 25 on) is given as an index      *)
(* outside the grid.                                                       *)
IndexOf(v) ==
    IF ~IsNumber(v) THEN -1
    ELSE IF v.half < 0 THEN -1
    ELSE IF v.half >= 2 * GridCells THEN GridCells
    ELSE IntOf(v)

(* POST /api/gamification/pop-city-place with any JSON value as index: NaN *)
(* passes the comparisons and int(index) raises.                           *)
PlaceJson(u, v, item) ==
    IF v.type = "nan" /\ ledger[u].game_currency >= POP_CITY_COST
    THEN /\ resp' = ErrorResponse("place", 500, "cannot convert float NaN to integer")
         /\ UNCHANGED <<goalVars, ledger, courtVars, board, extraVars>>
    ELSE Place(u, IndexOf(v), item)

Targets  == 0..MaxTarget
Amounts  == 0..MaxAmount
Dates    == {NoDate} \cup {StrDate(t) : t \in 0..MaxDue}
(* Statuses a client sets through PATCH. *)
EditStatuses == {"active", "paused", "pending"}
(* PATCH bodies: empty, or one of the keys target_amount and status (a     *)
(* body with several keys has the effect of its one-key bodies in turn).   *)
Bodies ==
    {<<>>}
    \cup {[k \in {"target_amount"} |-> t] : t \in 1..MaxTarget}
    \cup {[k \in {"status"} |-> st] : st \in EditStatuses}
IdLists  == UNION {[1..n -> ClientGoalIds] : n \in 0..MaxGoals}

(* The goal routes without PATCH, requests by either user. *)
Next ==
    \/ \E u \in Users, t \in Targets, d \in Dates : CreateGoal(u, t, d)
    \/ \E u \in Users, g \in ClientGoalIds, a \in Amounts : Contribute(u, g, a)
    \/ \E u \in Users, ids \in IdLists : ReorderGoals(u, ids)
    \/ \E u \in Users : CheckExpired(u)
    \/ \E u \in Users, g \in ClientGoalIds : ArchiveGoal(u, g)
    \/ \E u \in Users, g \in ClientGoalIds : DeleteGoal(u, g)
    \/ Tick

Spec == Init /\ [][Next]_vars

(* The routes that change a single goal, PATCH included, at one instant:   *)
(* u1 owns the goals (created without a target date), u2 is another caller.*)
NextEdit ==
    \/ \E t \in Targets : CreateGoal("u1", t, NoDate)
    \/ \E u \in Users, g \in ClientGoalIds, a \in Amounts : Contribute(u, g, a)
    \/ \E u \in Users, g \in ClientGoalIds, body \in Bodies : UpdateGoal(u, g, body)
    \/ \E u \in Users, g \in ClientGoalIds : ArchiveGoal(u, g)
    \/ \E u \in Users, g \in ClientGoalIds : DeleteGoal(u, g)

SpecEdit == Init /\ [][NextEdit]_vars

(* Place requests: a house on each cell of the first row, on the cell     *)
(* before the grid and on the cell after it; a tree and an empty item on   *)
(* cell 0.                                                                 *)
PlaceInputs ==
    {<<i, "house">> : i \in {-1} \cup 0..MaxCell \cup {GridCells}}
    \cup {<<0, "tree">>, <<0, "">>}
VoteInputs == {"approve", "veto", "abstain"}

(* Pop City and the veto court, one request at a time: u1 saves (a level-up *)
(* pays the coins) and builds, u2 asks the court, every member votes.       *)
NextCourt ==
    \/ CreateGoal("u1", MaxTarget, NoDate)
    \/ \E g \in ClientGoalIds : Contribute("u1", g, 1)
    \/ \E u \in {"u1", "u3"}, in \in PlaceInputs : Place(u, in[1], in[2])
    \/ \E item \in {"", "shoes"}, a \in {NoAmount, NumAmount(1)} : CreateVetoRequest("u2", item, a)
    \/ \E u \in Members, r \in ReqIds, v \in VoteInputs : VoteVetoRequest(u, r, v)
    \/ GetGameStats("u1")

SpecCourt == Init /\ [][NextCourt]_vars

(* Two place requests of u1 at a time. *)
NextPlaceConc ==
    \/ CreateGoal("u1", MaxTarget, NoDate)
    \/ \E g \in ClientGoalIds : Contribute("u1", g, 1)
    \/ \E c \in CallIds, i \in {0, 1} : PlaceBegin(c, "u1", i, "house")
    \/ \E c \in CallIds : PlaceUpdateUser(c)
    \/ \E c \in CallIds : PlaceUpdateGameStats(c)
    \/ \E c \in CallIds : PlaceReply(c)

SpecPlaceConc == Init /\ [][NextPlaceConc]_vars

(* Two vote requests of the builder u1 at a time. *)
NextVoteConc ==
    \/ CreateGoal("u1", MaxTarget, NoDate)
    \/ \E g \in ClientGoalIds : Contribute("u1", g, 1)
    \/ \E i \in 0..MaxCell : Place("u1", i, "house")
    \/ CreateVetoRequest("u2", "shoes", NumAmount(1))
    \/ \E c \in CallIds, r \in ReqIds, v \in {"approve", "veto"} : VoteBegin(c, "u1", r, v)
    \/ \E c \in CallIds : VoteAddVote(c)

SpecVoteConc == Init /\ [][NextVoteConc]_vars

(* The Scoreboard beside the routes that credit through update_game_stats: *)
(* u1 saves and builds, and the Scoreboard rewards u1.  An award names a   *)
(* row of the table, an activity the table does not hold, or its own       *)
(* points and coins.                                                       *)
AwardInputs ==
    {<<"daily_login", None, None>>, <<"bogus", None, None>>, <<"bonus", IntArg(1), IntArg(1)>>}
Usernames    == {"", "ann"}
SpendAmounts == 1..MaxSpend

NextLedger ==
    \/ CreateGoal("u1", MaxTarget, NoDate)
    \/ \E g \in ClientGoalIds : Contribute("u1", g, 1)
    \/ Place("u1", 0, "house")
    \/ \E in \in AwardInputs : AwardReward("u1", in[1], in[2], in[3])
    \/ \E n \in SpendAmounts : SpendCoins("u1", n)
    \/ \E name \in Usernames : UpdateStreak("u1", name)
    \/ Midnight

SpecLedger == Init /\ [][NextLedger]_vars

(* The queue routes: create, contribute, reorder, archive and delete, by   *)
(* either user.                                                            *)
NextQueue ==
    \/ \E u \in Users, t \in {0, MaxTarget} : CreateGoal(u, t, NoDate)
    \/ \E u \in Users, g \in ClientGoalIds, a \in Amounts : Contribute(u, g, a)
    \/ \E u \in Users, ids \in IdLists : ReorderGoals(u, ids)
    \/ \E u \in Users, g \in ClientGoalIds : ArchiveGoal(u, g)
    \/ \E u \in Users, g \in ClientGoalIds : DeleteGoal(u, g)

SpecQueue == Init /\ [][NextQueue]_vars

(* A queue of up to MaxQueue goals: either user creates goals, u1 reorders *)
(* and pauses them, and a contribution of the whole target completes one. *)
QueueOrders == [1..MaxQueue -> GoalIds]

NextPromote ==
    \/ \E u \in Users : CreateGoalWithin(MaxQueue, u, MaxTarget, NoDate)
    \/ \E u \in Users, g \in GoalIds : Contribute(u, g, MaxTarget)
    \/ \E ids \in QueueOrders : ReorderGoals("u1", ids)
    \/ \E g \in GoalIds : UpdateGoal("u1", g, [k \in {"status"} |-> "paused"])

SpecPromote == Init /\ [][NextPromote]_vars

(* One client whose contribute request may reach the route more than once; *)
(* on a goal of target BigTarget a contribution need not reach a level.    *)
NextRetry ==
    \/ \E t \in {MaxTarget, BigTarget} : CreateGoal("u1", t, NoDate)
    \/ \E c \in CallIds, u \in Users, g \in ClientGoalIds, a \in 1..MaxAmount : SendContribute(c, u, g, a)
    \/ \E c \in CallIds : DeliverContribute(c)
    \/ \E c \in CallIds : ReceiveResponse(c)

SpecRetry == Init /\ [][NextRetry]_vars

(* Contribute requests running at the same time. *)
NextContribConc ==
    \/ CreateGoal("u1", MaxTarget, NoDate)
    \/ \E c \in CallIds, u \in Users, g \in ClientGoalIds, a \in Amounts : ContributeBegin(c, u, g, a)
    \/ \E c \in CallIds : ContributeFind(c)
    \/ \E c \in CallIds : ContributeUpdate(c)
    \/ \E c \in CallIds : ContributeActivate(c)
    \/ \E c \in CallIds : ContributeReward(c)

SpecContribConc == Init /\ [][NextContribConc]_vars

(* The inputs of the Level Engine: targets at and around the bounds of the *)
(* remaining-amount buckets and small ones; current amounts from nothing   *)
(* saved to more than the target (PATCH may set a target below the amount  *)
(* saved); the kinds of target date; the advisory's answers.               *)
EngineTargets ==
    (1..MaxTarget)
    \cup {b + d : b \in {SmallRemaining, MediumRemaining, LargeRemaining},
                  d \in (-MaxSlack)..MaxSlack}
EngineCurrents(target) ==
    {c \in {0, target} \cup {target - d : d \in 1..MaxSlack}
                       \cup {target + d : d \in 1..MaxSlack} : c >= 0}
EngineDates ==
    {NoTargetDate, AwareDate, MalformedDate}
    \cup {NaiveDate(d) : d \in {-1, MinDays + MaxSlack}}
SuggestedLevels ==
    {Absent, JsonStr, JsonNaN, JsonBool(TRUE)}
    \cup {JsonInt(n) : n \in {MinLevels - 1, MinLevels, MaxLevels, MaxLevels + 1}}
    \cup {JsonFloat(2 * n + 1) : n \in {MinLevels - 1, MinLevels + MaxSlack, MaxLevels}}
SuggestedDaily ==
    {Absent, JsonStr, JsonNaN, JsonBool(TRUE)}
    \cup {JsonInt(n) : n \in {-1, 0, MaxSlack}}
    \cup {JsonFloat(h) : h \in {-1, 2 * MaxSlack + 1}}
Advisories ==
    {AdvisoryRaises}
    \cup {AdvisoryDict(l, d) : l \in SuggestedLevels, d \in SuggestedDaily}
InitLevels ==
    /\ goals  = [g \in GoalIds |-> NoGoal]
    /\ nextId = 1
    /\ now    = 0
    /\ ledger = [u \in Members |-> [game_points |-> 0, game_currency |-> 0,
                                    current_streak |-> 0, longest_streak |-> 0]]
    /\ resp   = Response("init", 200)
    /\ grid     = [u \in Members |-> EmptyPlacements]
    /\ requests = [r \in ReqIds |-> NoRequest]
    /\ calls    = [c \in CallIds |-> Idle]
    /\ board    = EmptyScoreboard
    /\ quests   = EmptyQuests
    /\ \E t \in EngineTargets, d \in EngineDates, a \in Advisories :
          \E c \in EngineCurrents(t) :
             engine = [input |-> [goal_data |-> [target_amount |-> t, current_amount |-> c,
                                                target_date |-> d],
                                  advisory  |-> a],
                       out   |-> NoResult]

NextLevels == ComputeLevels

SpecLevels == InitLevels /\ [][NextLevels]_vars

(* The side quest routes, requests by either user. *)
RewardInputs == 0..MaxReward

NextQuest ==
    \/ \E u \in Users, n \in BOOLEAN, p \in RewardInputs, c \in RewardInputs :
          CreateQuestFromSuggestion(u, n, p, c)
    \/ \E u \in Users, t \in 1..(MaxTemplates + 1) : AcceptQuest(u, t)
    \/ \E u \in Users, q \in 1..(MaxQuests + 1) : CompleteQuest(u, q)

SpecQuest == Init /\ [][NextQuest]_vars

(* The index values of place requests: none, a string, NaN, true, integers *)
(* and floats in and around the grid.                                      *)
IndexValues ==
    {Absent, JsonStr, JsonNaN, JsonBool(TRUE)}
    \cup {JsonInt(i) : i \in {-1} \cup 0..MaxCell \cup {GridCells}}
    \cup {JsonFloat(h) : h \in {-1, 2 * MaxCell + 1, 2 * GridCells - 1, 2 * GridCells + 1}}

(* The grid and the votes, one request at a time: u1 saves and builds with *)
(* any index value, u2 asks the court, u1 votes.                           *)
NextGrid ==
    \/ CreateGoal("u1", MaxTarget, NoDate)
    \/ \E g \in ClientGoalIds : Contribute("u1", g, 1)
    \/ \E v \in IndexValues : PlaceJson("u1", v, "house")
    \/ CreateVetoRequest("u2", "shoes", NumAmount(1))
    \/ \E r \in ReqIds, vote \in VoteInputs : VoteVetoRequest("u1", r, vote)

SpecGrid == Init /\ [][NextGrid]_vars

(* ------------------------------ properties ----------------------------- *)
Exists(gs, g) == gs[g] # NoGoal

Remaining(g) == Max(0, g.target_amount - g.current_amount)

ActiveGoals(gs, u) == {g \in UserGoals(gs, u) : gs[g].status = "active"}

RECURSIVE SumOver(_, _)
SumOver(f, S) ==
    IF S = {} THEN 0
    ELSE LET x == CHOOSE y \in S : TRUE IN f[x] + SumOver(f, S \ {x})

(* What a step added to the current_amount of the goals of user u. *)
Increase(u) ==
    SumOver([g \in GoalIds |-> IF Exists(goals', g) THEN goals'[g].current_amount - goals[g].current_amount ELSE 0],
            UserGoals(goals, u))

(* What a step added to the current_level of the goals of user u. *)
LevelsRaised(u) ==
    SumOver([g \in GoalIds |-> IF Exists(goals', g) THEN Max(0, goals'[g].current_level - goals[g].current_level) ELSE 0],
            UserGoals(goals, u))

PointsCredited(u)   == ledger'[u].game_points - ledger[u].game_points
CurrencyCredited(u) == ledger'[u].game_currency - ledger[u].game_currency

(* A contribute request the route accepts: owner, existing goal, amount > 0. *)
ValidContribute(u, g, a) ==
    /\ Exists(goals, g)
    /\ goals[g].user_id = u
    /\ a > 0
    /\ Contribute(u, g, a)

(* C1: every goal has current_amount <= target_amount in every reachable   *)
(* state, also after an edit.                                              *)
C1_AmountWithinTarget ==
    \A g \in GoalIds : Exists(goals, g) => goals[g].current_amount <= goals[g].target_amount

(* C2: each user has at most one active goal in every reachable state.     *)
C2_AtMostOneActive ==
    \A u \in Users : Cardinality(ActiveGoals(goals, u)) <= 1

(* C3: no contributed money is lost: a successful contribute of a adds to  *)
(* the user's goals exactly a minus the remainder left for the caller, and *)
(* a contribute whose spillover finds no active goal still succeeds and    *)
(* hands the spillover back (so it stores exactly the remaining capacity). *)
C3_NoMoneyLost ==
    [][\A u \in Users, g \in GoalIds, a \in Amounts :
          ValidContribute(u, g, a) =>
             /\ resp'.code = 200 => Increase(u) <= a
             /\ (a > Remaining(goals[g]) /\ ActiveGoals(goals', u) \ {g} = {})
                   => /\ resp'.code = 200
                      /\ Increase(u) = Remaining(goals[g])]_vars

(* C4: spillover cascades: contributing a with r < a <= r + s to the       *)
(* active goal A (remaining r) whose next queued goal B has remaining s    *)
(* completes A at its target, makes B active and credits B with a - r.     *)
C4_SpilloverCascades ==
    [][\A u \in Users, A \in GoalIds, B \in GoalIds, a \in Amounts :
          (/\ ValidContribute(u, A, a)
           /\ goals[A].status = "active"
           /\ B \in NextGoalCandidates(goals, u, goals[A].order)
           /\ goals[B].status = "queued"
           /\ a > Remaining(goals[A])
           /\ a <= Remaining(goals[A]) + Remaining(goals[B]))
          => /\ goals'[A].status = "completed"
             /\ goals'[A].current_amount = goals[A].target_amount
             /\ goals'[B].status = "active"
             /\ goals'[B].current_amount = goals[B].current_amount + a - Remaining(goals[A])
             /\ resp'.code = 200]_vars

(* The number of thresholds of g that its current_amount has reached. *)
ThresholdsReached(g) ==
    Cardinality({i \in 1..Len(g.level_thresholds) :
                    g.current_amount * g.total_levels >= g.level_thresholds[i]})

(* C5: no level drift: for every goal with thresholds, the stored          *)
(* current_level is the number of thresholds <= current_amount.            *)
C5_NoLevelDrift ==
    \A g \in GoalIds :
        (Exists(goals, g) /\ goals[g].level_thresholds # <<>>)
            => goals[g].current_level = ThresholdsReached(goals[g])

(* C6: a contribute call that raises levels by D in total credits D*50     *)
(* points (besides the completion bonus) and D*25 coins; one that raises   *)
(* no level credits no level-up reward.                                    *)
C6_LevelUpCredited ==
    [][\A u \in Users, g \in GoalIds, a \in Amounts :
          ValidContribute(u, g, a) =>
             /\ CurrencyCredited(u) = LevelsRaised(u) * LevelCurrency
             /\ PointsCredited(u) >= LevelsRaised(u) * LevelPoints
             /\ PointsCredited(u) <= LevelsRaised(u) * LevelPoints + CompletionBonus + OnTimeBonus]_vars

(* C7: the completion bonus (+10, and +5 iff completed_at <= target_date)  *)
(* is credited on top of the level-up credit exactly in the contribute     *)
(* call in which the goal becomes completed, and in no other call.         *)
C7_CompletionBonus ==
    [][\A u \in Users, g \in GoalIds, a \in Amounts :
          ValidContribute(u, g, a) =>
             PointsCredited(u) - LevelsRaised(u) * LevelPoints =
                IF goals[g].status # "completed" /\ goals'[g].status = "completed"
                THEN CompletionBonus
                     + (IF /\ goals'[g].target_date # NoDate
                           /\ goals'[g].completed_at.t <= goals'[g].target_date.t
                        THEN OnTimeBonus ELSE 0)
                ELSE 0]_vars

(* C8: archived is terminal: a goal that is archived and is not deleted    *)
(* stays archived.                                                         *)
C8_ArchivedTerminal ==
    [][\A g \in GoalIds :
          (Exists(goals, g) /\ goals[g].status = "archived" /\ Exists(goals', g))
             => goals'[g].status = "archived"]_vars

LifecycleTransitions ==
    {<<"active", "completed">>, <<"active", "paused">>, <<"active", "queued">>,
     <<"queued", "active">>, <<"paused", "active">>,
     <<"active", "pending">>, <<"queued", "pending">>,
     <<"completed", "archived">>, <<"pending", "archived">>}

(* C9: every status change of a goal is a transition of the lifecycle.     *)
C9_LifecycleOnly ==
    [][\A g \in GoalIds :
          (Exists(goals, g) /\ Exists(goals', g) /\ goals'[g].status # goals[g].status)
             => <<goals[g].status, goals'[g].status>> \in LifecycleTransitions]_vars

(* C10: delete by the owner removes the goal iff it is archived; any other *)
(* delete fails and changes no goal.                                       *)
C10_DeleteOnlyArchived ==
    [][\A u \in Users, g \in GoalIds :
          DeleteGoal(u, g) =>
             IF Exists(goals, g) /\ goals[g].user_id = u /\ goals[g].status = "archived"
             THEN goals' = [goals EXCEPT ![g] = NoGoal] /\ resp'.code = 200
             ELSE goals' = goals /\ resp'.code = 400]_vars

(* A goal was created, later archived and then deleted by its owner, while *)
(* another goal of a non-archived status is still there.                   *)
C10_Witness ==
    /\ resp.op = "delete" /\ resp.code = 200
    /\ \E g \in GoalIds : g < nextId /\ ~Exists(goals, g)
    /\ \E g \in GoalIds : Exists(goals, g) /\ goals[g].status # "archived"

(* C11: archive by the owner sets the status to archived iff the status is *)
(* completed or pending; from any other status, for a missing goal or for  *)
(* a caller who is not the owner it fails and changes no field of no goal. *)
C11_ArchiveOnlyCompletedOrPending ==
    [][\A u \in Users, g \in GoalIds :
          ArchiveGoal(u, g) =>
             IF /\ Exists(goals, g)
                /\ goals[g].user_id = u
                /\ goals[g].status \in {"completed", "pending"}
             THEN goals' = [goals EXCEPT ![g].status = "archived"] /\ resp'.code = 200
             ELSE goals' = goals /\ resp'.code # 200]_vars

(* An archive call succeeded and left an archived goal that never reached  *)
(* its target (archived from pending) beside a goal that is not archived.  *)
C11_Witness ==
    /\ resp.op = "archive" /\ resp.code = 200
    /\ \E g \in GoalIds :
          /\ Exists(goals, g)
          /\ goals[g].status = "archived"
          /\ goals[g].current_amount < goals[g].target_amount
    /\ \E g \in GoalIds : Exists(goals, g) /\ goals[g].status # "archived"

(* The goals of u that the expiry sweep is to move at time t: active or    *)
(* queued, target_date before t, nothing saved.                            *)
DueForExpiry(gs, u, t) ==
    {g \in UserGoals(gs, u) :
        /\ gs[g].status \in {"active", "queued"}
        /\ gs[g].target_date # NoDate
        /\ gs[g].target_date.t < t
        /\ gs[g].current_amount = 0}

(* C12: checkExpired(user) moves to pending exactly the user's active or   *)
(* queued goals with a target_date in the past and current_amount 0, and a *)
(* second run right after the first finds nothing to update.               *)
C12_ExpirySweep ==
    [][\A u \in Users :
          CheckExpired(u) =>
             /\ \A g \in GoalIds :
                   goals'[g] = IF g \in DueForExpiry(goals, u, now)
                               THEN [goals[g] EXCEPT !.status = "pending"]
                               ELSE goals[g]
             /\ ExpiredGoals(goals', u, now) = {}
             /\ check_expired_goals(goals', u, now) = goals']_vars

(* ------------------------- properties of the court --------------------- *)
RequestExists(rid) == requests[rid] # NoRequest

(* The approve votes that u has cast, over all requests. *)
ApprovalsCast(reqs, u) ==
    Cardinality(UNION {{<<r, i>> : i \in {j \in 1..Len(reqs[r].votes) :
                                              /\ reqs[r].votes[j].userId = u
                                              /\ reqs[r].votes[j].vote = "approve"}} :
                       r \in {q \in ReqIds : reqs[q] # NoRequest}})

(* The rows r of 0..4 whose cells 5r..5r+4 are all filled in u's grid. *)
FullRows(gr, u) ==
    Cardinality({r \in 0..4 : \A k \in (5 * r)..(5 * r + 4) : k \in DOMAIN gr[u]})

C14_ApprovalsWithinRows ==
    \A u \in Members : ApprovalsCast(requests, u) <= FullRows(grid, u)

(* C15: the vote list of a request holds at most one vote per voter, and a *)
(* second vote of a voter on the same request is not recorded.             *)
C15_OneVotePerVoter ==
    [][/\ \A r \in ReqIds :
            requests'[r] # NoRequest =>
               \A i, j \in 1..Len(requests'[r].votes) :
                  requests'[r].votes[i].userId = requests'[r].votes[j].userId => i = j
       /\ \A u \in Members, r \in ReqIds, v \in VoteInputs :
            (/\ RequestExists(r)
             /\ HasVoted(requests[r], u)
             /\ resp'.op = "vote"
             /\ VoteVetoRequest(u, r, v))
            => requests' = requests /\ resp'.code # 200]_vars

(* Every request is there and pending, one holds a vote, and a vote on an  *)
(* existing request was refused by add_vote: the voter had voted on it.    *)
C15_Witness ==
    /\ \A r \in ReqIds : RequestExists(r) /\ requests[r].status = "pending"
    /\ \E r \in ReqIds : Len(requests[r].votes) = 1
    /\ resp = NotFoundResponse

(* C16: a vote of the requester on the own request and a vote on a request *)
(* that does not exist fail, append no vote and change no status; no       *)
(* request holds a vote of its requester.                                  *)
C16_NoSelfVote ==
    [][/\ \A u \in Members, r \in ReqIds, v \in VoteInputs :
            (/\ ~RequestExists(r) \/ requests[r].user_id = u
             /\ resp'.op = "vote"
             /\ VoteVetoRequest(u, r, v))
            => requests' = requests /\ resp'.code # 200
       /\ \A r \in ReqIds :
            requests'[r] # NoRequest =>
               \A i \in 1..Len(requests'[r].votes) :
                  requests'[r].votes[i].userId # requests'[r].user_id]_vars

(* A requester's vote on the own request, which holds a vote of another    *)
(* member, has just been refused.                                          *)
C16_Witness ==
    /\ resp.op = "vote" /\ resp.code = 400
    /\ resp.error = "You cannot vote on your own request"
    /\ \E r \in ReqIds : RequestExists(r) /\ Len(requests[r].votes) > 0

(* C17: the coin balance of every user is >= 0 in every reachable state,   *)
(* two place requests of one user running at the same time included.       *)
C17_BalanceNeverNegative ==
    \A u \in Members : ledger[u].game_currency >= 0

(* C18: a successful place debits 25 coins, credits 25 points and sets     *)
(* grid[cellIndex] = item, changing no other cell and no other user; a     *)
(* place with cellIndex outside [0,25) or an empty item changes nothing.   *)
C18_PlaceEffect ==
    [][\A u \in Members, in \in PlaceInputs :
          (resp'.op = "place" /\ Place(u, in[1], in[2])) =>
             /\ resp'.code = 200 =>
                  /\ ledger'[u].game_currency = ledger[u].game_currency - 25
                  /\ ledger'[u].game_points = ledger[u].game_points + 25
                  /\ DOMAIN grid'[u] = DOMAIN grid[u] \cup {in[1]}
                  /\ grid'[u][in[1]] = in[2]
                  /\ \A k \in DOMAIN grid[u] \ {in[1]} : grid'[u][k] = grid[u][k]
                  /\ \A w \in Members \ {u} : grid'[w] = grid[w] /\ ledger'[w] = ledger[w]
             /\ (in[1] < 0 \/ in[1] >= 25 \/ in[2] = "") =>
                  /\ resp'.code # 200
                  /\ ledger' = ledger
                  /\ grid' = grid]_vars

(* A builder who has placed items and holds coins was refused a cell       *)
(* outside the grid.                                                       *)
C18_Witness ==
    /\ resp.op = "place" /\ resp.code = 400 /\ resp.error = "Invalid index"
    /\ \E u \in Members : DOMAIN grid[u] # {} /\ ledger[u].game_currency >= 25

(* C19: a filled cell is immutable: a place call on an occupied cell       *)
(* changes neither the cell nor any balance.                               *)
C19_FilledCellImmutable ==
    [][\A u \in Members, in \in PlaceInputs :
          (in[1] \in DOMAIN grid[u] /\ resp'.op = "place" /\ Place(u, in[1], in[2]))
          => grid' = grid /\ ledger' = ledger]_vars

(* C20: the reported veto tokens are placement_count div 4 and the         *)
(* reported approve tokens are the full rows minus the approve votes cast: *)
(* four filled cells without a full row report 1 and 0; a full row 0       *)
(* reports 1 approve token, and 0 once an approval is cast.                *)
C20_ReportedTokens ==
    (resp.op \in {"place", "stats"} /\ resp.code = 200) =>
       LET u     == resp.user
           count == Cardinality(DOMAIN grid[u])
           rows  == FullRows(grid, u)
           used  == ApprovalsCast(requests, u)
       IN  /\ resp.stats.veto_tokens = count \div 4
           /\ resp.stats.approve_tokens = rows - used
           /\ (count = 4 /\ rows = 0) =>
                 resp.stats.veto_tokens = 1 /\ resp.stats.approve_tokens = 0
           /\ (rows = 1 /\ used = 0) => resp.stats.approve_tokens = 1
           /\ (rows = 1 /\ used = 1) => resp.stats.approve_tokens = 0

(* Row 0 is full, its builder has cast one approval, and the stats route   *)
(* reports no approve token and one veto token.                            *)
C20_Witness ==
    /\ resp.op = "stats" /\ resp.code = 200
    /\ \A k \in 0..4 : k \in DOMAIN grid[resp.user]
    /\ ApprovalsCast(requests, resp.user) = 1
    /\ resp.stats.approve_tokens = 0
    /\ resp.stats.veto_tokens = 1

(* ------------------------ properties of the ledger --------------------- *)
(* C21: a user's persisted points never decrease: game_points after each   *)
(* contribute, place, streak update, award_reward and spend_coins is at    *)
(* least game_points before it.                                            *)
C21_PointsNeverDecrease ==
    [][\A u \in Members : ledger'[u].game_points >= ledger[u].game_points]_vars

(* C22: the persisted balance changes by additive increments only: after   *)
(* award_reward(u, p, c) the persisted points and coins of u are those     *)
(* persisted just before plus (p, c), after spend_coins(u, n) plus (0, -n),*)
(* whether or not the Scoreboard has seen u and whatever update_game_stats *)
(* credited in between.                                                    *)
C22_AdditiveOnly ==
    [][/\ \A u \in Users, in \in AwardInputs :
            (/\ resp'.op = "award_reward"
             /\ resp'.code = 200
             /\ AwardReward(u, in[1], in[2], in[3]))
            => /\ ledger'[u].game_points = ledger[u].game_points + resp'.points
               /\ ledger'[u].game_currency = ledger[u].game_currency + resp'.coins
       /\ \A u \in Users, n \in SpendAmounts :
            (/\ resp'.op = "spend_coins"
             /\ resp'.code = 200
             /\ SpendCoins(u, n))
            => /\ ledger'[u].game_points = ledger[u].game_points
               /\ ledger'[u].game_currency = ledger[u].game_currency - n]_vars

(* C23: a streak update leaves the streak as it is when the last activity  *)
(* was today, adds 1 when it was the day before, and sets it to 1          *)
(* otherwise (a longer gap, or the first activity).                        *)
C23_StreakUpdate ==
    [][\A u \in Users, name \in Usernames :
          (resp'.op = "update_streak" /\ UpdateStreak(u, name)) =>
             LET seen == u \in DOMAIN board.user_last_activity
                 old  == DictGet(board.user_streaks, u, 0)
                 new  == DictGet(board'.user_streaks, u, 0)
             IN  IF seen /\ board.user_last_activity[u] = now THEN new = old
                 ELSE IF seen /\ board.user_last_activity[u] = now - 1 THEN new = old + 1
                 ELSE new = 1]_vars

(* C24: longest_streak >= current_streak for every user in every reachable *)
(* state.                                                                  *)
C24_LongestCoversCurrent ==
    \A u \in Members : ledger[u].longest_streak >= ledger[u].current_streak

C26_OrderUnique ==
    \A u \in Users :
        \A g, h \in UserGoals(goals, u) : goals[g].order = goals[h].order => g = h

C29_RetryAppliesOnce ==
    [][\A c \in CallIds :
          (/\ calls[c].op = "contribute"
           /\ calls[c].pc = "sent"
           /\ resp = Response("contribute", 200)
           /\ DeliverContribute(c))
          => /\ goals'[calls[c].goal_id].current_amount = goals[calls[c].goal_id].current_amount
             /\ ledger' = ledger]_vars

(* A contribute call that has written its update and has not replied. *)
HasWritten(c) == calls[c].op = "contribute" /\ calls[c].pc \in {"activate", "reward"}

(* C30: two contribute calls a1 and a2 that run at the same time on a goal *)
(* with current amount c and target t leave current_amount = min(t, c + a1 *)
(* + a2), with the level and the status that belong to that amount.        *)
C30_NoLostUpdate ==
    \A c1, c2 \in CallIds :
        (/\ c1 # c2
         /\ HasWritten(c1) /\ HasWritten(c2)
         /\ calls[c1].goal_id = calls[c2].goal_id
         /\ calls[c1].goal = calls[c2].goal)
        => LET read  == calls[c1].goal
               g     == goals[calls[c1].goal_id]
               final == Min(read.target_amount,
                            read.current_amount + calls[c1].amount + calls[c2].amount)
           IN  /\ g.current_amount = final
               /\ g.current_level = ThresholdsReached(g)
               /\ g.status = "completed" <=> final >= read.target_amount

(* ----------------------- the Level Engine's claims --------------------- *)
Returned == engine.out.kind = "returned"

GoalData == engine.input.goal_data

StrictlyIncreasing(s) == \A i \in 1..(Len(s) - 1) : s[i] < s[i + 1]

(* C31: for every input (any target and current amount, with or without a  *)
(* target date) and every answer of the advisory (valid, absent, malformed,*)
(* out of range, or an exception) the Level Engine returns a total_levels  *)
(* in 5..50 and a daily_target >= 0.                                       *)
C31_LevelsAndDailyInRange ==
    engine.out # NoResult
    => /\ Returned
       /\ engine.out.total_levels \in 5..50
       /\ engine.out.daily_target >= 0

(* C32: for every target and every current amount in 0..target the level   *)
(* thresholds the Level Engine returns are strictly increasing, as many as *)
(* total_levels, the last one equal to the target, the i-th equal to       *)
(* current + (remaining / total_levels) * i (thresholds are numerators     *)
(* over total_levels).                                                     *)
C32_ThresholdsIncreaseToTarget ==
    (/\ Returned
     /\ 0 <= GoalData.current_amount
     /\ GoalData.current_amount <= GoalData.target_amount)
    => LET th == engine.out.level_thresholds
           n  == engine.out.total_levels
       IN  /\ Len(th) = n
           /\ StrictlyIncreasing(th)
           /\ th[n] = GoalData.target_amount * n
           /\ \A i \in 1..n :
                 th[i] = GoalData.current_amount * n
                         + (GoalData.target_amount - GoalData.current_amount) * i

(* The advisory hook disabled: the call of the advisory raises. *)
HookDisabled == engine.input.advisory = AdvisoryRaises

FollowsBuckets ==
    LET remaining == GoalData.target_amount - GoalData.current_amount
        n         == engine.out.total_levels
    IN  /\ remaining < 500 => n = 10
        /\ (remaining >= 500 /\ remaining < 2000) => n = 20
        /\ (remaining >= 2000 /\ remaining < 5000) => n = 30
        /\ remaining >= 5000 => n = 50

ExampleInput ==
    /\ GoalData.target_amount = 5000
    /\ GoalData.current_amount = 0
    /\ GoalData.target_date = NoTargetDate

ExampleYields(n) ==
    /\ engine.out.total_levels = n
    /\ engine.out.daily_target = 2778
    /\ Len(engine.out.level_thresholds) = n
    /\ StrictlyIncreasing(engine.out.level_thresholds)
    /\ engine.out.level_thresholds[n] = 5000 * n

(* C33 as stated: with the advisory hook disabled the call on target 5000, *)
(* current 0 and no target date yields 30 levels, a daily target of 27.78  *)
(* and 30 strictly increasing thresholds ending at 5000, and the fallback  *)
(* total_levels follows the buckets <500 -> 10, <2000 -> 20, <5000 -> 30,  *)
(* else 50.                                                                *)
C33_FallbackExampleThirty ==
    (Returned /\ HookDisabled)
    => /\ FollowsBuckets
       /\ ExampleInput => ExampleYields(30)

(* C33: with the advisory hook disabled the fallback total_levels follows  *)
(* the buckets <500 -> 10, <2000 -> 20, <5000 -> 30, else 50 of the        *)
(* remaining amount; the call on target 5000, current 0 and no target date *)
(* falls in the last bucket: 50 levels, a daily target of 27.78 and 50     *)
(* strictly increasing thresholds ending at 5000.                          *)
C33_FallbackExample ==
    (Returned /\ HookDisabled)
    => /\ FollowsBuckets
       /\ ExampleInput => ExampleYields(50)

C33_Witness ==
    Returned /\ HookDisabled /\ ExampleInput /\ engine.out.total_levels = 50

(* A suggestion the contract lets through: an integer in 5..50 for the     *)
(* levels, a number >= 0 for the daily target.                             *)
IsJsonNumber(v) == v.type \in {"int", "float"}

ValidLevels(advisory) ==
    /\ advisory.kind = "dict"
    /\ IsJsonNumber(advisory.levels)
    /\ advisory.levels.half % 2 = 0
    /\ advisory.levels.half >= 2 * 5
    /\ advisory.levels.half <= 2 * 50

ValidDaily(advisory) ==
    /\ advisory.kind = "dict"
    /\ IsJsonNumber(advisory.daily)
    /\ advisory.daily.half >= 0

(* C34: whatever the advisory does (raises, answers something malformed or *)
(* out of range), the Level Engine returns, and total_levels, the          *)
(* thresholds and daily_target are the fallback values of the same input   *)
(* unless the advisory gave an integer in 5..50 for the levels,            *)
(* respectively a number >= 0 for the daily target.                        *)
C34_AdvisoryFailuresAbsorbed ==
    (engine.out # NoResult /\ ~DateRaises(GoalData.target_date))
    => LET fallback == calculate_levels_with_ai(GoalData, AdvisoryRaises)
       IN  /\ Returned
           /\ ~ValidLevels(engine.input.advisory)
              => /\ engine.out.total_levels = fallback.total_levels
                 /\ engine.out.level_thresholds = fallback.level_thresholds
           /\ ~ValidDaily(engine.input.advisory)
              => engine.out.daily_target = fallback.daily_target

(* ------------------------ promotion and completion --------------------- *)
(* The contribute call that has just answered completed goal g. *)
Completes(g) ==
    /\ resp'.op = "contribute"
    /\ Exists(goals, g)
    /\ goals[g].status # "completed"
    /\ goals'[g].status = "completed"

(* The goals behind g in its owner's queue that wait for promotion. *)
Waiting(gs, g) ==
    {h \in GoalIds : /\ Exists(gs, h)
                     /\ gs[h].user_id = gs[g].user_id
                     /\ gs[h].order > gs[g].order
                     /\ gs[h].status \in {"queued", "paused"}}

StatusChanged(g) == {h \in GoalIds \ {g} : goals'[h].status # goals[h].status}

(* C35: when a contribute completes goal G, the goal of the same user with *)
(* the smallest order among those with order > G.order and status queued   *)
(* or paused becomes active (none if there is no such goal) and no other   *)
(* goal changes its status; a goal of another user is never promoted.      *)
C35_PromotesNextInOrder ==
    [][\A g \in GoalIds :
          Completes(g)
          => /\ Waiting(goals, g) = {} => StatusChanged(g) = {}
             /\ Waiting(goals, g) # {}
                => \E h \in Waiting(goals, g) :
                      /\ \A k \in Waiting(goals, g) : goals[h].order <= goals[k].order
                      /\ goals'[h].status = "active"
                      /\ StatusChanged(g) = {h}
             /\ \A h \in StatusChanged(g) : goals[h].user_id = goals[g].user_id]_vars

(* A goal was completed and, of the two goals waiting behind it, the one   *)
(* next in order promoted.                                                 *)
C35_Witness ==
    /\ resp = Response("contribute", 200)
    /\ \E g, h, k \in GoalIds :
          /\ Exists(goals, g) /\ Exists(goals, h) /\ Exists(goals, k)
          /\ goals[g].user_id = goals[h].user_id
          /\ goals[g].user_id = goals[k].user_id
          /\ goals[g].status = "completed"
          /\ goals[g].current_amount = goals[g].target_amount
          /\ goals[h].status = "active"
          /\ goals[h].order > goals[g].order
          /\ goals[h].current_amount = 0
          /\ goals[k].status \in {"queued", "paused"}
          /\ goals[k].order > goals[h].order

(* C36: right after a contribute completed a goal, a user who has a queued *)
(* or paused goal also has an active goal.                                 *)
C36_PendingImpliesActive ==
    [][\A g \in GoalIds :
          Completes(g)
          => LET mine == {h \in GoalIds : Exists(goals', h)
                                          /\ goals'[h].user_id = goals[g].user_id}
             IN  (\E h \in mine : goals'[h].status \in {"queued", "paused"})
                 => \E h \in mine : goals'[h].status = "active"]_vars

(* C37: completed_at is null until the contribute that brings              *)
(* current_amount to the target, and once set no later call changes or     *)
(* clears it.                                                              *)
C37_CompletedAtSetOnce ==
    [][\A g \in GoalIds :
          (Exists(goals, g) /\ Exists(goals', g))
          => /\ goals[g].completed_at # NoDate
                => goals'[g].completed_at = goals[g].completed_at
             /\ (goals[g].completed_at = NoDate /\ goals'[g].completed_at # NoDate)
                => /\ resp'.op = "contribute"
                   /\ goals'[g].current_amount >= goals'[g].target_amount]_vars

(* The goals a step gave money to. *)
Received == {h \in GoalIds : Exists(goals, h) /\ Exists(goals', h)
                             /\ goals'[h].current_amount # goals[h].current_amount}

C39_TokenSupplyMonotone ==
    [][\A u \in Members :
          /\ Cardinality(DOMAIN grid'[u]) >= Cardinality(DOMAIN grid[u])
          /\ Cardinality(DOMAIN grid'[u]) \div 4 >= Cardinality(DOMAIN grid[u]) \div 4
          /\ FullRows(grid', u) >= FullRows(grid, u)
          /\ Cardinality(DOMAIN grid'[u]) <= 25
          /\ DOMAIN grid'[u] \subseteq 0..24]_vars

(* A place request has filled the last cell of a row: its user has earned  *)
(* a veto-request token and an approve token.                             *)
C39_Witness ==
    /\ resp.op = "place" /\ resp.code = 200
    /\ \E u \in Members : /\ FullRows(grid, u) = 1
                          /\ Cardinality(DOMAIN grid[u]) \div 4 = 1

(* ------------------------------- side quests --------------------------- *)
(* C40: the reward of an accepted quest is credited at most once: a        *)
(* complete call by the owner on a quest that is accepted adds the quest's *)
(* points_reward and currency_reward to the owner's balance, a later       *)
(* complete call on the same quest adds nothing, and a complete call by    *)
(* another user credits nothing and leaves the quest as it is.             *)
C40_RewardCreditedOnce ==
    [][\A q \in QuestIds :
          (/\ resp'.op = "completeQuest"
           /\ resp'.user_quest_id = q
           /\ quests.user_quests[q] # NoUserQuest)
          => LET user_quest     == quests.user_quests[q]
                 quest_template == quests.templates[user_quest.quest_id]
                 owner          == user_quest.user_id
             IN  /\ resp'.code = 403 => (ledger' = ledger /\ quests' = quests)
                 /\ user_quest.status = "completed" => ledger' = ledger
                 /\ (user_quest.status = "accepted" /\ resp'.code = 200)
                    => /\ ledger'[owner].game_points
                             = ledger[owner].game_points + quest_template.points_reward
                       /\ ledger'[owner].game_currency
                             = ledger[owner].game_currency + quest_template.currency_reward]_vars

====
